---- MODULE Spec2Model ----
(***************************************************************************)
(* Model of utils/trello_parser.py: parse_board (one Trello board export   *)
(* -> Sort), get_paths_to_jsons_in_dir (generator over a directory) and    *)
(* parse_sorts_in_dir (the batch driver).                                  *)
(*                                                                         *)
(* parse_board is a function of the decoded document and the optional      *)
(* card mapping; it is modelled as the operator parse_board, computed step *)
(* by step as the code computes it, and applied by the action CallParse    *)
(* (specification Spec) and by the driver's ParseOk / ParseFail steps      *)
(* (specification SpecDir).                                                *)
(***************************************************************************)
EXTENDS Integers, Sequences, FiniteSets, TLC

VARIABLES
    f,             \* the TextIO handed to parse_board: [json, data]
    card_mapping,  \* [present, map]: None or a dict from card name to id
    called,        \* parse_board has been called and has finished
    ret,           \* what the call produced (see Returned / Raised)
    listing,       \* os.listdir(path): the directory's entries, in scan order
    pc,            \* parse_sorts_in_dir's position
    gi,            \* the generator's position in listing (entries consumed)
    cur,           \* the path the for loop is bound to (index in listing, 0: none)
    open_files,    \* the file handles currently open
    sorts,         \* the local list `sorts`
    pending,       \* the exception travelling through the with block ("" if none)
    dret,          \* what parse_sorts_in_dir produced
    attempted      \* history: the paths open() was called on, in order

vars == <<f, card_mapping, called, ret, listing, pc, gi, cur, open_files,
          sorts, pending, dret, attempted>>

boardVars == <<f, card_mapping, called, ret>>
dirVars == <<listing, pc, gi, cur, open_files, sorts, pending, dret, attempted>>

-----------------------------------------------------------------------------
(* Bounds of the model.                                                    *)

MaxLists == 3
MaxCards == 2
MaxActions == 2
MaxHour == 1
MaxFiles == 3

-----------------------------------------------------------------------------
(* The input domain: the shape of a board export (spec section 6).         *)

ListIds == {"a", "b"}
NoSuchList == "z"
Positions == 1 .. 2
CardNames == {"c1", "c2"}

\* The name of the i-th list of the `lists` array: names are pairwise
\* distinct, so that a returned group identifies its source list.
ListName(i) == <<"L", i>>

SeqsUpTo(S, n) == UNION {[1 .. k -> S] : k \in 0 .. n}

TrelloLists ==
    {[i \in 1 .. Len(s) |-> [id |-> s[i][1], pos |-> s[i][2], name |-> ListName(i)]] :
        s \in SeqsUpTo(ListIds \X Positions, MaxLists)}

Cards ==
    SeqsUpTo([name : CardNames, idList : ListIds \cup {NoSuchList}, closed : BOOLEAN],
             MaxCards)

\* An ISO-8601 date string "....T<h>:00+0<off>:00": local hour and UTC offset.
DateStrings == [h : 0 .. MaxHour, off : {0, 1}]

\* The (type, data) shapes an action can have.  data is a JSON object: keys
\* is the set of its keys, old the set of keys of data['old'] (when present).
ActionShapes ==
    { [type |-> "createList",  data |-> [keys |-> {"list"},               old |-> {}]],
      [type |-> "updateCard",  data |-> [keys |-> {"listBefore", "old"},  old |-> {"idList"}]],
      [type |-> "updateCard",  data |-> [keys |-> {"old"},                old |-> {"name"}]],
      [type |-> "updateList",  data |-> [keys |-> {"old"},                old |-> {"name"}]],
      [type |-> "updateList",  data |-> [keys |-> {"old"},                old |-> {"pos"}]],
      [type |-> "updateList",  data |-> [keys |-> {"list"},               old |-> {}]],
      [type |-> "commentCard", data |-> [keys |-> {"text"},               old |-> {}]] }

Actions ==
    {[i \in 1 .. Len(s) |-> [type |-> s[i][1].type, data |-> s[i][1].data, date |-> s[i][2]]] :
        s \in SeqsUpTo(ActionShapes \X DateStrings, MaxActions)}

None == [present |-> FALSE, map |-> [n \in {} |-> ""]]
SomeMapping == [present |-> TRUE, map |-> [n \in {"c1"} |-> "id1"]]
CardMappings == {None, SomeMapping}

-----------------------------------------------------------------------------
(* Library behaviour parse_board relies on.                                *)

\* dateutil's isoparse: the instant (in hours, UTC) a date string denotes.
\* Two different strings can denote one instant, and the order of the
\* instants is not the order of the local hours.
isoparse(date) == date.h - date.off

\* list.sort(key=...): a stable insertion of the indices 1..n by key.
RECURSIVE Insert(_, _, _)
Insert(sorted, i, keys) ==
    IF sorted = <<>> THEN <<i>>
    ELSE IF keys[Head(sorted)] <= keys[i]
         THEN <<Head(sorted)>> \o Insert(Tail(sorted), i, keys)
         ELSE <<i>> \o sorted

RECURSIVE SortedIndices(_, _)
SortedIndices(n, keys) ==
    IF n = 0 THEN <<>> ELSE Insert(SortedIndices(n - 1, keys), n, keys)

list_sort(seq, keys) ==
    LET idx == SortedIndices(Len(seq), keys)
    IN  [k \in 1 .. Len(seq) |-> seq[idx[k]]]

\* A dict keeps its keys in insertion order; assigning to a key that is
\* present replaces the value and leaves the key where it is.
dict_has(d, k) == \E i \in 1 .. Len(d) : d[i].key = k

dict_index(d, k) == CHOOSE i \in 1 .. Len(d) : d[i].key = k

dict_setitem(d, k, v) ==
    IF dict_has(d, k)
    THEN [d EXCEPT ![dict_index(d, k)].value = v]
    ELSE Append(d, [key |-> k, value |-> v])

dict_values(d) == [i \in 1 .. Len(d) |-> d[i].value]

\* utils.sorts.Group(name): a named bucket with an initially empty card set.
Group(name) == [name |-> name, cards |-> {}]

\* utils.sorts.Sort(name, groups, total_sort_time).
Sort(name, groups, total_sort_time) ==
    [name |-> name, groups |-> groups, duration |-> total_sort_time]

-----------------------------------------------------------------------------
(* parse_board, lines 22-82.                                               *)

\* What a call produces: a Sort, or an exception and no Sort.  valid_actions
\* is the local list of that name as it stood when the call ended.
Returned(sort, valid) ==
    [status |-> "returned", error |-> "", sort |-> <<sort>>, valid_actions |-> valid]

Raised(error, valid) ==
    [status |-> "raised", error |-> error, sort |-> <<>>, valid_actions |-> valid]

\* line 25: trello_lists.sort(key=lambda x: x['pos'])
SortListsUnsorted(trello_lists) == trello_lists

SortLists(trello_lists) ==
    list_sort(trello_lists, [i \in 1 .. Len(trello_lists) |-> trello_lists[i].pos])

\* lines 29-34: one Group per list, keyed by list id.
RECURSIVE BuildGroups(_, _)
BuildGroups(groups_by_id, trello_lists) ==
    IF trello_lists = <<>> THEN groups_by_id
    ELSE LET trello_list == Head(trello_lists)
         IN  BuildGroups(dict_setitem(groups_by_id, trello_list.id,
                                      Group(trello_list.name)),
                         Tail(trello_lists))

\* line 38: cards = [card for card in cards if not card['closed']]
OpenCardsUnfiltered(cards) == cards

OpenCards(cards) == SelectSeq(cards, LAMBDA card : ~card.closed)

\* lines 44-47: the identifier stored for a card; ok is FALSE when
\* card_mapping[card['name']] raises KeyError.
CardDataLenient(card, mapping) ==
    IF mapping.present /\ card.name \in DOMAIN mapping.map
    THEN [ok |-> TRUE, value |-> mapping.map[card.name]]
    ELSE [ok |-> TRUE, value |-> card.name]

CardData(card, mapping) ==
    IF mapping.present
    THEN IF card.name \in DOMAIN mapping.map
         THEN [ok |-> TRUE, value |-> mapping.map[card.name]]
         ELSE [ok |-> FALSE, value |-> card.name]
    ELSE [ok |-> TRUE, value |-> card.name]

\* lines 40-48: the loop over the open cards; stops at the first KeyError.
RECURSIVE AssignCards(_, _, _)
AssignCards(groups_by_id, cards, mapping) ==
    IF cards = <<>> THEN [error |-> "", groups_by_id |-> groups_by_id]
    ELSE LET card == Head(cards)
             group_id == card.idList
         IN  IF ~dict_has(groups_by_id, group_id)
             THEN [error |-> "KeyError: idList", groups_by_id |-> groups_by_id]
             ELSE LET card_data == CardData(card, mapping)
                      i == dict_index(groups_by_id, group_id)
                  IN  IF ~card_data.ok
                      THEN [error |-> "KeyError: card_mapping",
                            groups_by_id |-> groups_by_id]
                      ELSE AssignCards(
                               [groups_by_id EXCEPT ![i].value.cards =
                                   @ \cup {card_data.value}],
                               Tail(cards), mapping)

\* line 51: actions.sort(key=lambda x: isoparse(x['date']))
SortActionsUnsorted(actions) == actions

SortActions(actions) ==
    list_sort(actions, [i \in 1 .. Len(actions) |-> isoparse(actions[i].date)])

\* lines 59-66: what the if/elif chain does with one action.
ClassifyAction(action) ==
    LET action_data == action.data
        action_type == action.type
    IN  IF action_type = "updateCard" /\ "listBefore" \in action_data.keys
        THEN "append"
        ELSE IF action_type = "createList"
        THEN "append"
        ELSE IF action_type = "updateList"
        THEN IF "old" \notin action_data.keys
             THEN "KeyError"
             ELSE IF "name" \in action_data.old THEN "append" ELSE "skip"
        ELSE "skip"

\* lines 54-66: the loop building valid_actions; stops at the first KeyError.
RECURSIVE FilterActions(_, _)
FilterActions(valid_actions, actions) ==
    IF actions = <<>> THEN [error |-> "", valid_actions |-> valid_actions]
    ELSE LET c == ClassifyAction(Head(actions))
         IN  IF c = "KeyError"
             THEN [error |-> "KeyError: old", valid_actions |-> valid_actions]
             ELSE FilterActions(
                      IF c = "append" THEN Append(valid_actions, Head(actions))
                                      ELSE valid_actions,
                      Tail(actions))

\* lines 71-72: next(action for action in valid_actions if type == 'createList');
\* found is FALSE when next() raises StopIteration.
FirstListOrFirstAction(valid_actions) ==
    LET created == SelectSeq(valid_actions, LAMBDA a : a.type = "createList")
    IN  IF created # <<>> THEN [found |-> TRUE, action |-> <<created[1]>>]
        ELSE IF valid_actions # <<>> THEN [found |-> TRUE, action |-> <<valid_actions[1]>>]
        ELSE [found |-> FALSE, action |-> <<>>]

FirstList(valid_actions) ==
    LET created == SelectSeq(valid_actions, LAMBDA a : a.type = "createList")
    IN  IF created # <<>> THEN [found |-> TRUE, action |-> <<created[1]>>]
        ELSE [found |-> FALSE, action |-> <<>>]

\* line 74: end_time = isoparse(actions[-1]['date'])
EndTimeOfValid(actions, valid_actions) ==
    isoparse(valid_actions[Len(valid_actions)].date)

EndTime(actions, valid_actions) == isoparse(actions[Len(actions)].date)

\* line 78: groups = [group for group in groups_by_id.values() if group.cards]
PruneGroupsKeepAll(groups_by_id) == dict_values(groups_by_id)

PruneGroups(groups_by_id) ==
    SelectSeq(dict_values(groups_by_id), LAMBDA group : group.cards # {})

\* lines 24-82, after json.load.
ParseData(data, mapping) ==
    LET trello_lists == SortLists(data.lists)
        groups_by_id == BuildGroups(<<>>, trello_lists)
        cards == OpenCards(data.cards)
        assigned == AssignCards(groups_by_id, cards, mapping)
        actions == SortActions(data.actions)
        filtered == FilterActions(<<>>, actions)
        valid_actions == filtered.valid_actions
        first_list == FirstList(valid_actions)
    IN  IF assigned.error # "" THEN Raised(assigned.error, <<>>)
        ELSE IF filtered.error # "" THEN Raised(filtered.error, valid_actions)
        ELSE IF ~first_list.found THEN Raised("StopIteration", valid_actions)
        ELSE LET start_time == isoparse(first_list.action[1].date)
                 end_time == EndTime(actions, valid_actions)
                 total_sort_time == end_time - start_time
                 groups == PruneGroups(assigned.groups_by_id)
             IN  Returned(Sort(data.name, groups, total_sort_time), valid_actions)

\* line 22 onwards: json.load(f) raises on text that is not JSON.
parse_board(file, mapping) ==
    IF ~file.json THEN Raised("JSONDecodeError", <<>>)
    ELSE ParseData(file.data, mapping)

-----------------------------------------------------------------------------
(* Specification Spec: parse_board applied to one export.                  *)

Document(name, lists, cards, actions) ==
    [name |-> name, lists |-> lists, cards |-> cards, actions |-> actions]

JsonFile(data) == [json |-> TRUE, data |-> data]
GarbageFile == [json |-> FALSE, data |-> Document("", <<>>, <<>>, <<>>)]

Action(type, keys, old, h, off) ==
    [type |-> type, data |-> [keys |-> keys, old |-> old], date |-> [h |-> h, off |-> off]]

\* A session: a list is created, a second one, then a card is moved; the
\* array is in Trello's order, newest first.
SessionActions ==
    << Action("updateCard", {"listBefore", "old"}, {"idList"}, 1, 0),
       Action("createList", {"list"}, {}, 1, 1),
       Action("createList", {"list"}, {}, 0, 1) >>

TwoLists ==
    << [id |-> "a", pos |-> 2, name |-> ListName(1)],
       [id |-> "b", pos |-> 1, name |-> ListName(2)] >>

OneOpenOneClosed ==
    << [name |-> "c1", idList |-> "b", closed |-> FALSE],
       [name |-> "c2", idList |-> "a", closed |-> TRUE] >>

NotCalled == [status |-> "none", error |-> "", sort |-> <<>>, valid_actions |-> <<>>]
NoResult == [status |-> "none", error |-> "", sorts |-> <<>>]

DirIdle ==
    /\ listing = <<>>
    /\ pc = "idle"
    /\ gi = 0
    /\ cur = 0
    /\ open_files = {}
    /\ sorts = <<>>
    /\ pending = ""
    /\ dret = NoResult
    /\ attempted = <<>>

\* Every combination of lists, cards and mapping, with a well-formed history.
InitGroups ==
    /\ \E lists \in TrelloLists, cards \in Cards :
          f = JsonFile(Document("board", lists, cards, SessionActions))
    /\ card_mapping \in CardMappings

\* Every action history, with well-formed lists and cards.
InitActions ==
    /\ \E actions \in Actions :
          f = JsonFile(Document("board", TwoLists, OneOpenOneClosed, actions))
    /\ card_mapping = None

InitGarbage ==
    /\ f = GarbageFile
    /\ card_mapping = None

Init ==
    /\ InitGroups \/ InitActions \/ InitGarbage
    /\ called = FALSE
    /\ ret = NotCalled
    /\ DirIdle

CallParse ==
    /\ pc = "idle"
    /\ ~called
    /\ called' = TRUE
    /\ ret' = parse_board(f, card_mapping)
    /\ UNCHANGED <<f, card_mapping>>
    /\ UNCHANGED dirVars

Next == CallParse

Spec == Init /\ [][Next]_vars

-----------------------------------------------------------------------------
(* Specification SpecDir: parse_sorts_in_dir over one directory.           *)

GoodDoc1 ==
    Document("board1", TwoLists, OneOpenOneClosed, SessionActions)

\* Valid without a mapping; its open card c2 is not a key of SomeMapping.
GoodDoc2 ==
    Document("board2", TwoLists,
             << [name |-> "c2", idList |-> "a", closed |-> FALSE] >>,
             SessionActions)

\* No list was ever created: parse_board raises StopIteration.
NoCreateDoc ==
    Document("board3", TwoLists, OneOpenOneClosed,
             << Action("updateCard", {"listBefore", "old"}, {"idList"}, 1, 0) >>)

FileTexts == {JsonFile(GoodDoc1), JsonFile(GoodDoc2), JsonFile(NoCreateDoc)}

\* A directory entry: whether its name ends in '.json', whether it is a
\* plain file, whether open() succeeds on it, and its text.
DirEntries ==
    [json_suffix : BOOLEAN, isfile : {TRUE}, readable : {TRUE}, text : FileTexts]
    \cup [json_suffix : BOOLEAN, isfile : {TRUE}, readable : {FALSE}, text : {GarbageFile}]
    \cup [json_suffix : BOOLEAN, isfile : {FALSE}, readable : {FALSE}, text : {GarbageFile}]

\* line 96: os.path.isfile(file_path) and file.endswith('.json')
IsJsonFileAnySuffix(entry) == entry.isfile

IsJsonFile(entry) == entry.isfile /\ entry.json_suffix

\* line 114: leaving the with block closes the handle, on every exit path.
WithExitLeak(handles, path) == handles

WithExit(handles, path) == handles \ {path}

InitDir ==
    /\ listing \in SeqsUpTo(DirEntries, MaxFiles)
    /\ card_mapping \in CardMappings
    /\ pc = "start"
    /\ gi = 0
    /\ cur = 0
    /\ open_files = {}
    /\ sorts = <<>>
    /\ pending = ""
    /\ dret = NoResult
    /\ attempted = <<>>
    /\ f = GarbageFile
    /\ called = FALSE
    /\ ret = NotCalled

\* lines 111-112: sorts = []; the generator object is created, not yet run.
Start ==
    /\ pc = "start"
    /\ sorts' = <<>>
    /\ pc' = "for"
    /\ UNCHANGED <<listing, gi, cur, open_files, pending, dret, attempted>>
    /\ UNCHANGED boardVars

\* lines 93-97 driven by line 113: the generator runs to its next yield ...
GeneratorYield ==
    /\ pc = "for"
    /\ \E j \in (gi + 1) .. Len(listing) :
          /\ IsJsonFile(listing[j])
          /\ \A k \in (gi + 1) .. (j - 1) : ~IsJsonFile(listing[k])
          /\ gi' = j
          /\ cur' = j
    /\ pc' = "open"
    /\ UNCHANGED <<listing, open_files, sorts, pending, dret, attempted>>
    /\ UNCHANGED boardVars

\* ... or to its end, which ends the for loop.
GeneratorExhausted ==
    /\ pc = "for"
    /\ \A k \in (gi + 1) .. Len(listing) : ~IsJsonFile(listing[k])
    /\ gi' = Len(listing)
    /\ pc' = "return"
    /\ UNCHANGED <<listing, cur, open_files, sorts, pending, dret, attempted>>
    /\ UNCHANGED boardVars

\* line 114: open(path, 'r') succeeds and the with block is entered.
OpenOk ==
    /\ pc = "open"
    /\ listing[cur].readable
    /\ open_files' = open_files \cup {cur}
    /\ attempted' = Append(attempted, cur)
    /\ pc' = "parse"
    /\ UNCHANGED <<listing, gi, cur, sorts, pending, dret>>
    /\ UNCHANGED boardVars

\* line 114: open(path, 'r') raises; nothing was opened, the error leaves
\* parse_sorts_in_dir.
OpenFail ==
    /\ pc = "open"
    /\ ~listing[cur].readable
    /\ attempted' = Append(attempted, cur)
    /\ dret' = [status |-> "raised", error |-> "OSError", sorts |-> <<>>]
    /\ pc' = "done"
    /\ UNCHANGED <<listing, gi, cur, open_files, sorts, pending>>
    /\ UNCHANGED boardVars

\* lines 115-116: parse_board returns and its Sort is appended.
ParseOk ==
    /\ pc = "parse"
    /\ LET r == parse_board(listing[cur].text, card_mapping)
       IN  /\ r.status = "returned"
           /\ sorts' = Append(sorts, r.sort[1])
    /\ pc' = "exit"
    /\ UNCHANGED <<listing, gi, cur, open_files, pending, dret, attempted>>
    /\ UNCHANGED boardVars

\* line 115: parse_board raises; the exception unwinds through the with.
ParseFail ==
    /\ pc = "parse"
    /\ LET r == parse_board(listing[cur].text, card_mapping)
       IN  /\ r.status = "raised"
           /\ pending' = r.error
    /\ pc' = "exit"
    /\ UNCHANGED <<listing, gi, cur, open_files, sorts, dret, attempted>>
    /\ UNCHANGED boardVars

\* line 114: the with block is left normally; back to the for loop.
ExitNormal ==
    /\ pc = "exit"
    /\ pending = ""
    /\ open_files' = WithExit(open_files, cur)
    /\ pc' = "for"
    /\ UNCHANGED <<listing, gi, cur, sorts, pending, dret, attempted>>
    /\ UNCHANGED boardVars

\* line 114: the with block is left by the exception, which then leaves
\* parse_sorts_in_dir: the generator is never resumed, `sorts` is dropped.
ExitRaise ==
    /\ pc = "exit"
    /\ pending # ""
    /\ open_files' = WithExit(open_files, cur)
    /\ dret' = [status |-> "raised", error |-> pending, sorts |-> <<>>]
    /\ pc' = "done"
    /\ UNCHANGED <<listing, gi, cur, sorts, pending, attempted>>
    /\ UNCHANGED boardVars

\* line 117: return sorts
Return ==
    /\ pc = "return"
    /\ dret' = [status |-> "returned", error |-> "", sorts |-> sorts]
    /\ pc' = "done"
    /\ UNCHANGED <<listing, gi, cur, open_files, sorts, pending, attempted>>
    /\ UNCHANGED boardVars

NextDir ==
    \/ Start
    \/ GeneratorYield
    \/ GeneratorExhausted
    \/ OpenOk
    \/ OpenFail
    \/ ParseOk
    \/ ParseFail
    \/ ExitNormal
    \/ ExitRaise
    \/ Return

SpecDir == InitDir /\ [][NextDir]_vars

-----------------------------------------------------------------------------
(* Vocabulary of the properties of parse_board.                            *)

TheDoc == f.data
TheSort == ret.sort[1]
ReturnedSort == called /\ ret.status = "returned"
NoSortReturned == called /\ ret.status = "raised" /\ ret.sort = <<>>

\* Index, in the `lists` array of the document, of the list a group is named after.
SourceIndex(group) ==
    CHOOSE i \in 1 .. Len(TheDoc.lists) : TheDoc.lists[i].name = group.name

SourceList(group) == TheDoc.lists[SourceIndex(group)]

IsOpenCardOf(card, list_id) == ~card.closed /\ card.idList = list_id

HasOpenCard(list_id) ==
    \E c \in 1 .. Len(TheDoc.cards) : IsOpenCardOf(TheDoc.cards[c], list_id)

DistinctListIds ==
    \A i, j \in 1 .. Len(TheDoc.lists) :
        TheDoc.lists[i].id = TheDoc.lists[j].id => i = j

\* List i stands before list j in ascending pos, array order among equal pos.
PosBefore(i, j) ==
    \/ TheDoc.lists[i].pos < TheDoc.lists[j].pos
    \/ TheDoc.lists[i].pos = TheDoc.lists[j].pos /\ i < j

\* The list with the given id that stands first in that order.
FirstWithId(list_id) ==
    CHOOSE i \in 1 .. Len(TheDoc.lists) :
        /\ TheDoc.lists[i].id = list_id
        /\ \A j \in 1 .. Len(TheDoc.lists) :
              (TheDoc.lists[j].id = list_id /\ j # i) => PosBefore(i, j)

Instants(actions) == {isoparse(actions[i].date) : i \in 1 .. Len(actions)}

CreateListInstants ==
    {isoparse(TheDoc.actions[i].date) :
        i \in {k \in 1 .. Len(TheDoc.actions) : TheDoc.actions[k].type = "createList"}}

Latest(S) == CHOOSE x \in S : \A y \in S : y <= x
Earliest(S) == CHOOSE x \in S : \A y \in S : x <= y

-----------------------------------------------------------------------------
(* C1: every group of a returned Sort has a non-empty card set, and is     *)
(* named after a list that an open card is assigned to: a list left with   *)
(* no open card never appears in the result.                               *)
C1_GroupsNonEmpty ==
    ReturnedSort =>
        \A g \in 1 .. Len(TheSort.groups) :
            /\ TheSort.groups[g].cards # {}
            /\ HasOpenCard(SourceList(TheSort.groups[g]).id)

\* A Sort was returned from a document one of whose lists has no open card,
\* and another of whose lists made it into the result.
C1_Witness ==
    /\ ReturnedSort
    /\ Len(TheSort.groups) >= 1
    /\ \E i \in 1 .. Len(TheDoc.lists) : ~HasOpenCard(TheDoc.lists[i].id)

-----------------------------------------------------------------------------
(* C2 as stated: any two groups of a returned Sort stand in ascending pos  *)
(* of the source lists they are named after, array order among equal pos.  *)
C2_OrderByOwnPos ==
    ReturnedSort =>
        \A g, h \in 1 .. Len(TheSort.groups) :
            g < h => PosBefore(SourceIndex(TheSort.groups[g]),
                               SourceIndex(TheSort.groups[h]))

(* C2 as amended: any two groups of a returned Sort stand in ascending pos *)
(* (array order among equal pos) of the first list carrying each group's   *)
(* list id; when the list ids are pairwise distinct, that is ascending pos *)
(* of the groups' own source lists, ties in array order.                   *)
C2_OrderByFirstListOfId ==
    ReturnedSort =>
        /\ \A g, h \in 1 .. Len(TheSort.groups) :
              g < h => PosBefore(FirstWithId(SourceList(TheSort.groups[g]).id),
                                 FirstWithId(SourceList(TheSort.groups[h]).id))
        /\ DistinctListIds =>
              \A g, h \in 1 .. Len(TheSort.groups) :
                  g < h => PosBefore(SourceIndex(TheSort.groups[g]),
                                     SourceIndex(TheSort.groups[h]))

\* Two groups were returned, in the opposite of their lists' array order.
C2_Witness ==
    /\ ReturnedSort
    /\ DistinctListIds
    /\ Len(TheSort.groups) = 2
    /\ SourceIndex(TheSort.groups[1]) > SourceIndex(TheSort.groups[2])

-----------------------------------------------------------------------------
WithoutClosedCards(data) ==
    [data EXCEPT !.cards = SelectSeq(data.cards, LAMBDA card : card.closed = FALSE)]

(* C3: a closed card contributes no identifier to any group of a returned  *)
(* Sort (every identifier of a group is that of an open card assigned to   *)
(* the group's list), and the call produces exactly what it produces on    *)
(* the document with the closed cards taken out, whatever their idList.    *)
C3_ClosedCardsIgnored ==
    ReturnedSort =>
        /\ \A g \in 1 .. Len(TheSort.groups) :
              \A x \in TheSort.groups[g].cards :
                  \E c \in 1 .. Len(TheDoc.cards) :
                      /\ IsOpenCardOf(TheDoc.cards[c], SourceList(TheSort.groups[g]).id)
                      /\ x = IF card_mapping.present
                             THEN card_mapping.map[TheDoc.cards[c].name]
                             ELSE TheDoc.cards[c].name
        /\ ret = parse_board(JsonFile(WithoutClosedCards(TheDoc)), card_mapping)

\* A Sort with a group was returned from a document holding a closed card
\* whose idList matches no list.
C3_Witness ==
    /\ ReturnedSort
    /\ Len(TheSort.groups) >= 1
    /\ \E c \in 1 .. Len(TheDoc.cards) :
          /\ TheDoc.cards[c].closed
          /\ TheDoc.cards[c].idList = NoSuchList

-----------------------------------------------------------------------------
Unmapped(card) == card_mapping.present /\ card.name \notin DOMAIN card_mapping.map

OpenUnmapped == {c \in 1 .. Len(TheDoc.cards) :
                    ~TheDoc.cards[c].closed /\ Unmapped(TheDoc.cards[c])}

FirstOpenUnmapped == CHOOSE c \in OpenUnmapped : \A d \in OpenUnmapped : c <= d

KnownListIds == {TheDoc.lists[i].id : i \in 1 .. Len(TheDoc.lists)}

(* C4 as stated: with a mapping supplied, a card of the `cards` array      *)
(* whose name is not a key of the mapping makes the call fail (with the    *)
(* unmapped-identifier error, the claim adds), and no Sort is returned.    *)
C4_AnyUnmappedCardFails ==
    (called /\ f.json /\ \E c \in 1 .. Len(TheDoc.cards) : Unmapped(TheDoc.cards[c]))
        => NoSortReturned

(* C4 as amended: with a mapping supplied, a card that is not closed and   *)
(* whose name is not a key of the mapping makes the call fail, and no Sort *)
(* is returned; the error is the unmapped-identifier error, unless an open *)
(* card at or before the first such card has an idList matching no list,   *)
(* and then it is the unresolvable-reference error.                        *)
C4_OpenUnmappedCardFails ==
    (called /\ f.json /\ OpenUnmapped # {}) =>
        /\ NoSortReturned
        /\ IF \E c \in 1 .. FirstOpenUnmapped :
                 /\ ~TheDoc.cards[c].closed
                 /\ TheDoc.cards[c].idList \notin KnownListIds
           THEN ret.error = "KeyError: idList"
           ELSE ret.error = "KeyError: card_mapping"

\* The lookup of an open card's name in the mapping raised.
C4_Witness ==
    /\ called
    /\ OpenUnmapped # {}
    /\ ret.error = "KeyError: card_mapping"
    /\ NoSortReturned

-----------------------------------------------------------------------------
-----------------------------------------------------------------------------
(* C6: a call on a document whose `actions` holds no createList action     *)
(* fails and returns no Sort, also when `actions` is empty and the lists   *)
(* and cards are well-formed.                                              *)
C6_NoCreateListFails ==
    (called /\ CreateListInstants = {}) => NoSortReturned

\* The call failed at next() on an empty `actions`, lists and cards being
\* well-formed.
C6_Witness ==
    /\ called
    /\ f.json
    /\ TheDoc.actions = <<>>
    /\ TheDoc.lists # <<>>
    /\ TheDoc.cards # <<>>
    /\ NoSortReturned
    /\ ret.error = "StopIteration"

-----------------------------------------------------------------------------
IsCardMove(action) ==
    action.type = "updateCard" /\ "listBefore" \in action.data.keys

IsListCreation(action) == action.type = "createList"

IsListRename(action) ==
    /\ action.type = "updateList"
    /\ "old" \in action.data.keys
    /\ "name" \in action.data.old

IsRetainedKind(action) ==
    IsCardMove(action) \/ IsListCreation(action) \/ IsListRename(action)

\* The call got as far as the loop over the actions.
ReachedActionFilter ==
    called /\ f.json /\ ret.error \notin {"KeyError: idList", "KeyError: card_mapping"}

(* C9: the action filter retains exactly the card moves, the list          *)
(* creations and the list renames, in date order; an action of any other   *)
(* type or shape is dropped, and dropping it does not make the call fail:  *)
(* when a list creation is among the actions, a Sort is returned.          *)
C9_FilterDropsEverythingElse ==
    ReachedActionFilter =>
        /\ ret.valid_actions = SelectSeq(SortActions(TheDoc.actions), IsRetainedKind)
        /\ CreateListInstants # {} => ReturnedSort

-----------------------------------------------------------------------------
(* C10: the duration of a returned Sort is never negative.                 *)
C10_DurationNonNegative ==
    ReturnedSort => TheSort.duration >= 0

\* A Sort was returned from an `actions` array whose last element is dated
\* before the first list creation.
C10_Witness ==
    /\ ReturnedSort
    /\ isoparse(TheDoc.actions[Len(TheDoc.actions)].date) < Earliest(CreateListInstants)

-----------------------------------------------------------------------------
(* Vocabulary of the properties of parse_sorts_in_dir.                     *)

\* An export: a plain file, directly in the directory, named '*.json'.
IsExport(i) == listing[i].isfile /\ listing[i].json_suffix

ExportIndices == SelectSeq([i \in 1 .. Len(listing) |-> i], IsExport)

SortOf(i) == parse_board(listing[i].text, card_mapping)

IsValidExport(i) == listing[i].readable /\ SortOf(i).status = "returned"

AllExportsValid == \A k \in 1 .. Len(ExportIndices) : IsValidExport(ExportIndices[k])

\* The position in ExportIndices of the first export that fails.
FirstFailing ==
    CHOOSE k \in 1 .. Len(ExportIndices) :
        /\ ~IsValidExport(ExportIndices[k])
        /\ \A j \in 1 .. (k - 1) : IsValidExport(ExportIndices[j])

-----------------------------------------------------------------------------
(* C7: when every export of the directory is valid, the driver returns one *)
(* Sort per plain file named '*.json', in scan order, and nothing for the  *)
(* other files and for directories, whatever their names.                  *)
C7_OneSortPerExport ==
    (pc = "done" /\ AllExportsValid) =>
        /\ dret.status = "returned"
        /\ dret.sorts = [k \in 1 .. Len(ExportIndices) |-> SortOf(ExportIndices[k]).sort[1]]

\* Two Sorts were returned from a directory of three entries, the one in
\* the middle a directory named '*.json' or a file not named so.
C7_Witness ==
    /\ pc = "done"
    /\ dret.status = "returned"
    /\ Len(dret.sorts) = 2
    /\ Len(listing) = 3
    /\ ~IsExport(2)
    /\ dret.sorts[1] # dret.sorts[2]

-----------------------------------------------------------------------------
(* C8: at most one file handle is open at any moment and none when the     *)
(* next file is opened; when opening or extracting an export fails, its    *)
(* handle is released, the exports opened are those up to and including    *)
(* the failing one, the driver stops there and returns no Sorts.           *)
C8_OneAtATimeFirstFailureAborts ==
    /\ Cardinality(open_files) <= 1
    /\ pc = "open" => open_files = {}
    /\ dret.status = "raised" =>
          /\ open_files = {}
          /\ dret.sorts = <<>>
          /\ ~AllExportsValid
          /\ attempted = SubSeq(ExportIndices, 1, FirstFailing)
          /\ pc = "done"
          /\ ~ENABLED NextDir

\* The second export failed after the first had been parsed; a third one
\* was never opened.
C8_Witness ==
    /\ dret.status = "raised"
    /\ Len(sorts) = 1
    /\ Len(attempted) = 2
    /\ Len(ExportIndices) = 3
    /\ open_files = {}

====
